---- MODULE Spec2Model ----
(***************************************************************************)
(* yaserver: a static-file request handler (src/src/index.ts, compiled to  *)
(* src/out/index.js).  createServer(options) closes over rootDir, useETag   *)
(* and expires and returns handle(req, res); doHandle maps one request to   *)
(* one response writer through up to four filesystem probes.               *)
(*                                                                         *)
(* Strings that the code inspects character by character (URLs, paths,     *)
(* file names, file bytes) are sequences of one-character strings, so that *)
(* path.normalize, path.join, path.relative, String.substr and the         *)
(* comparisons between them are computed, not assumed.                      *)
(***************************************************************************)
EXTENDS Integers, Sequences, FiniteSets, TLC

(***************************************************************************)
(* Bounds of the model.                                                     *)
(***************************************************************************)
\* longest request path, in segments
MaxSegs == 3
\* number of distinct md5 digests the model tells apart
HashMod == 2
\* filesystem changes made by other processes while the server runs
MaxFsChanges == 1
\* request slots (requests that can be in flight together)
NSlots == 2

(***************************************************************************)
(* Character strings.                                                       *)
(***************************************************************************)
Sep == "/"

sRoot == <<"/">>
sW == <<"/", "w">>
sWSlash == <<"/", "w", "/">>
sMissing == <<"/", "n">>
sA == <<"a">>
sUpperB == <<"B">>
sFTxt == <<"f", ".", "t", "x", "t">>
sWx == <<"w", "x">>
sIndexHtml == <<"i", "n", "d", "e", "x", ".", "h", "t", "m", "l">>
sDotDot == <<".", ".">>
sDot == <<".">>
sEmpty == <<>>

Last(s) == s[Len(s)]

\* String.prototype.substr(0, n)
Substr0(s, n) == SubSeq(s, 1, IF n < Len(s) THEN n ELSE Len(s))

\* String.prototype.charAt(0): "" when the string is empty
CharAt0(s) == IF Len(s) = 0 THEN "" ELSE s[1]

RECURSIVE SplitAcc(_, _, _, _)
SplitAcc(p, i, cur, acc) ==
    IF i > Len(p) THEN Append(acc, cur)
    ELSE IF p[i] = Sep THEN SplitAcc(p, i + 1, <<>>, Append(acc, cur))
    ELSE SplitAcc(p, i + 1, Append(cur, p[i]), acc)

\* the segments of a path between its separators, empty ones included
Split(p) == SplitAcc(p, 1, <<>>, <<>>)

RECURSIVE JoinSegs(_)
JoinSegs(segs) ==
    IF Len(segs) = 0 THEN <<>>
    ELSE IF Len(segs) = 1 THEN segs[1]
    ELSE segs[1] \o <<Sep>> \o JoinSegs(Tail(segs))

RECURSIVE NormalizeSegs(_, _, _)
\* node's normalizeString: drops "" and ".", resolves ".." against the segment
\* before it, and keeps a leading ".." only when allowAboveRoot
NormalizeSegs(segs, res, allowAboveRoot) ==
    IF Len(segs) = 0 THEN res
    ELSE LET s == Head(segs)
             rest == Tail(segs)
         IN  IF s = sEmpty \/ s = sDot THEN NormalizeSegs(rest, res, allowAboveRoot)
             ELSE IF s = sDotDot
                  THEN IF Len(res) > 0 /\ Last(res) # sDotDot
                       THEN NormalizeSegs(rest, SubSeq(res, 1, Len(res) - 1), allowAboveRoot)
                       ELSE IF allowAboveRoot
                            THEN NormalizeSegs(rest, Append(res, s), allowAboveRoot)
                            ELSE NormalizeSegs(rest, res, allowAboveRoot)
                  ELSE NormalizeSegs(rest, Append(res, s), allowAboveRoot)

\* path.normalize (posix)
Normalize(p) ==
    IF Len(p) = 0 THEN sDot
    ELSE LET isAbsolute == p[1] = Sep
             trailingSeparator == Last(p) = Sep
             body == JoinSegs(NormalizeSegs(Split(p), <<>>, ~isAbsolute))
         IN  IF Len(body) = 0
             THEN IF isAbsolute THEN <<Sep>>
                  ELSE IF trailingSeparator THEN <<".", Sep>> ELSE sDot
             ELSE LET withSep == IF trailingSeparator THEN body \o <<Sep>> ELSE body
                  IN  IF isAbsolute THEN <<Sep>> \o withSep ELSE withSep

\* path.join(a, b) (posix): the non-empty arguments joined by "/", normalized
PathJoin(a, b) ==
    LET joined == IF Len(a) = 0 THEN b
                  ELSE IF Len(b) = 0 THEN a
                  ELSE a \o <<Sep>> \o b
    IN  IF Len(joined) = 0 THEN sDot ELSE Normalize(joined)

\* the segments of path.resolve(p) for an absolute p
ResolveSegs(p) == NormalizeSegs(Split(p), <<>>, FALSE)

RECURSIVE CommonLen(_, _)
CommonLen(a, b) ==
    IF Len(a) = 0 \/ Len(b) = 0 \/ Head(a) # Head(b) THEN 0
    ELSE 1 + CommonLen(Tail(a), Tail(b))

\* path.relative(from, to) (posix) for absolute from and to
Relative(from, to) ==
    LET f == ResolveSegs(from)
        t == ResolveSegs(to)
        k == CommonLen(f, t)
        ups == [i \in 1..(Len(f) - k) |-> sDotDot]
    IN  JoinSegs(ups \o SubSeq(t, k + 1, Len(t)))

RECURSIVE StripTrailingSeps(_)
StripTrailingSeps(p) ==
    IF Len(p) > 1 /\ Last(p) = Sep THEN StripTrailingSeps(SubSeq(p, 1, Len(p) - 1))
    ELSE p

RECURSIVE LastIndexOf(_, _, _)
\* the greatest i <= from with s[i] = c, or 0
LastIndexOf(s, c, from) ==
    IF from = 0 THEN 0
    ELSE IF s[from] = c THEN from
    ELSE LastIndexOf(s, c, from - 1)

\* path.basename(p) (posix)
Basename(p) ==
    LET q == StripTrailingSeps(p)
        i == LastIndexOf(q, Sep, Len(q))
    IN  SubSeq(q, i + 1, Len(q))

\* path.extname(p) (posix): from the last "." of the base name, "" when there
\* is none, when it is the first character, or when the base name is ".."
Extname(p) ==
    LET b == Basename(p)
        i == LastIndexOf(b, ".", Len(b))
    IN  IF i <= 1 \/ b = sDotDot THEN <<>> ELSE SubSeq(b, i, Len(b))

(***************************************************************************)
(* The filesystem the probes read.  A node path is absolute, normalized and *)
(* has no trailing separator.                                               *)
(***************************************************************************)
Under(dir, name) == IF dir = sRoot THEN dir \o name ELSE dir \o <<Sep>> \o name

pW == sW
pA == Under(pW, sA)
pAIndex == Under(pA, sIndexHtml)
pUpperB == Under(pW, sUpperB)
pF == Under(pW, sFTxt)
pWx == Under(sRoot, sWx)
pWxIndex == Under(pWx, sIndexHtml)

FsPaths == {sRoot, pW, pA, pAIndex, pUpperB, pF, pWx, pWxIndex}

\* file bytes
FileBytes == {<<"a">>, <<"s">>}

NoNode == [kind |-> "none", bytes |-> <<>>]
DirNode == [kind |-> "dir", bytes |-> <<>>]
FileNode(b) == [kind |-> "file", bytes |-> b]

InitFs ==
    [p \in FsPaths |->
        IF p \in {pAIndex, pF} THEN FileNode(<<"a">>)
        ELSE IF p = pWxIndex THEN FileNode(<<"s">>)
        ELSE DirNode]

\* path.dirname of a node path
Parent(p) ==
    LET i == LastIndexOf(p, Sep, Len(p))
    IN  IF i <= 1 THEN sRoot ELSE SubSeq(p, 1, i - 1)

IsPrefix(a, b) == Len(a) <= Len(b) /\ SubSeq(b, 1, Len(a)) = a

\* q is p or lies below the directory p
InSubtree(p, q) ==
    q = p \/ IsPrefix(IF p = sRoot THEN p ELSE p \o <<Sep>>, q)

HasTrailingSep(p) == Len(p) > 1 /\ Last(p) = Sep

\* what the operating system finds at path p: a trailing separator resolves
\* only to a directory
NodeAt(f, p) ==
    LET q == StripTrailingSeps(p)
    IN  IF q \notin FsPaths THEN NoNode
        ELSE IF f[q].kind = "file" /\ HasTrailingSep(p) THEN NoNode
        ELSE f[q]

(***************************************************************************)
(* Buffers, probe results and the md5 digest.                               *)
(***************************************************************************)
\* a Buffer: a file's bytes, or the bytes of a rendered listing kept by its
\* variable parts (the title and one item per entry)
FileBuffer(b) == [kind |-> "file", bytes |-> b, items |-> <<>>]
ListingBuffer(title, items) == [kind |-> "listing", bytes |-> title, items |-> items]
NoBuffer == [kind |-> "none", bytes |-> <<>>, items |-> <<>>]

\* what a probe resolves to: null (ok is FALSE) or its value
NullBuffer == [ok |-> FALSE, data |-> NoBuffer]
Bytes(buf) == [ok |-> TRUE, data |-> buf]
NullStats == [ok |-> FALSE, isDirectory |-> FALSE]
Stats(isDir) == [ok |-> TRUE, isDirectory |-> isDir]
\* a variant: a failed readdir resolves to no entries
NullDirentsAsEmpty == [ok |-> TRUE, entries |-> <<>>]
NullDirents == [ok |-> FALSE, entries |-> <<>>]
Dirents(es) == [ok |-> TRUE, entries |-> es]

\* a variant: every path is reported to exist
fsExistsAlways(f, path) == TRUE

\* fs.exists
fsExists(f, p) == NodeAt(f, p).kind # "none"

\* fs.stat, errors resolved to null
fsSafeStat(f, p) ==
    LET n == NodeAt(f, p)
    IN  IF n.kind = "none" THEN NullStats ELSE Stats(n.kind = "dir")

\* fs.readFile, errors (ENOENT, EISDIR, ENOTDIR) resolved to null
fsSafeRead(f, p) ==
    LET n == NodeAt(f, p)
    IN  IF n.kind = "file" THEN Bytes(FileBuffer(n.bytes)) ELSE NullBuffer

\* the fs.Dirent of the entries of directory q
DirentsOf(f, q) ==
    {[name |-> Basename(c), isDir |-> f[c].kind = "dir"] :
        c \in {c \in FsPaths : c # sRoot /\ f[c].kind # "none" /\ Parent(c) = q}}

\* every order in which readdir may return a set of entries
Orders(S) ==
    {s \in [1..Cardinality(S) -> S] : \A i, j \in 1..Cardinality(S) : s[i] = s[j] => i = j}

\* fs.readdir withFileTypes, errors resolved to null: the possible results
fsSafeReadDir(f, p) ==
    LET n == NodeAt(f, p)
    IN  IF n.kind = "dir"
        THEN {Dirents(es) : es \in Orders(DirentsOf(f, StripTrailingSeps(p)))}
        ELSE {NullDirents}

\* the characters of the model's strings, by code
CharTable ==
    <<".", "/", "?", "B", "a", "b", "d", "e", "f", "h", "i", "l", "m", "n", "s", "t", "w", "x">>

CharCode(c) == CHOOSE i \in 1..Len(CharTable) : CharTable[i] = c

RECURSIVE Concat(_)
Concat(ss) == IF Len(ss) = 0 THEN <<>> ELSE Head(ss) \o Concat(Tail(ss))

\* the bytes of a Buffer
BufferBytes(buf) ==
    IF buf.kind = "listing"
    THEN buf.bytes \o Concat([i \in 1..Len(buf.items) |->
             <<IF buf.items[i].icon = "folder-icon" THEN "d" ELSE "f">>
                 \o buf.items[i].href \o <<"?">> \o buf.items[i].text \o <<"?">>])
    ELSE buf.bytes

\* Buffer.byteLength
ByteLength(buf) == Len(BufferBytes(buf))

RECURSIVE Digest(_, _)
Digest(bytes, acc) ==
    IF Len(bytes) = 0 THEN acc
    ELSE Digest(Tail(bytes), (acc * 3 + CharCode(Head(bytes))) % HashMod)

\* crypto.createHash('md5').update(content).digest("hex"): a function of the
\* bytes alone, with HashMod possible values
Md5Hex(content) == Digest(BufferBytes(content), 0)

(***************************************************************************)
(* serveDir: the order and the rendering of a listing.                      *)
(***************************************************************************)
ToLower(c) == IF c = "B" THEN "b" ELSE c
IsUpper(c) == c # ToLower(c)

\* the collation's primary order: punctuation before letters, letters by the
\* alphabet whatever their case
CollationOrder ==
    <<"?", "/", ".", "a", "b", "d", "e", "f", "h", "i", "l", "m", "n", "s", "t", "w", "x">>

Primary(c) == CHOOSE i \in 1..Len(CollationOrder) : CollationOrder[i] = ToLower(c)

RECURSIVE ComparePrimary(_, _)
ComparePrimary(a, b) ==
    IF Len(a) = 0 /\ Len(b) = 0 THEN 0
    ELSE IF Len(a) = 0 THEN -1
    ELSE IF Len(b) = 0 THEN 1
    ELSE IF Primary(Head(a)) < Primary(Head(b)) THEN -1
    ELSE IF Primary(Head(a)) > Primary(Head(b)) THEN 1
    ELSE ComparePrimary(Tail(a), Tail(b))

RECURSIVE CompareCase(_, _)
\* called on strings equal at the primary level: lower case sorts first
CompareCase(a, b) ==
    IF Len(a) = 0 \/ Len(b) = 0 THEN 0
    ELSE IF ~IsUpper(Head(a)) /\ IsUpper(Head(b)) THEN -1
    ELSE IF IsUpper(Head(a)) /\ ~IsUpper(Head(b)) THEN 1
    ELSE CompareCase(Tail(a), Tail(b))

\* String.prototype.localeCompare: letters first, then case
LocaleCompare(a, b) ==
    LET p == ComparePrimary(a, b)
    IN  IF p # 0 THEN p ELSE CompareCase(a, b)

\* a variant: files sort before directories
CompareEntriesFilesFirst(a, b) ==
    LET aIsDir == IF a.isDir THEN 1 ELSE 0
        bIsDir == IF b.isDir THEN 1 ELSE 0
    IN  IF aIsDir = bIsDir THEN LocaleCompare(a.name, b.name)
        ELSE aIsDir - bIsDir

\* the comparator handed to entries.sort
CompareEntries(a, b) ==
    LET aIsDir == IF a.isDir THEN 0 ELSE 1
        bIsDir == IF b.isDir THEN 0 ELSE 1
    IN  IF aIsDir = bIsDir THEN LocaleCompare(a.name, b.name)
        ELSE aIsDir - bIsDir

RECURSIVE InsertSorted(_, _)
InsertSorted(e, sorted) ==
    IF Len(sorted) = 0 THEN <<e>>
    ELSE IF CompareEntries(e, Head(sorted)) < 0 THEN <<e>> \o sorted
    ELSE <<Head(sorted)>> \o InsertSorted(e, Tail(sorted))

RECURSIVE SortFrom(_, _)
SortFrom(es, sorted) ==
    IF Len(es) = 0 THEN sorted
    ELSE SortFrom(Tail(es), InsertSorted(Head(es), sorted))

\* a variant: the entries are rendered as readdir returned them
SortEntriesNot(es) == es

\* entries.sort(comparator): a stable sort
SortEntries(es) == SortFrom(es, <<>>)

\* one <li> of the listing
RenderEntry(relativePath, entry) ==
    [icon |-> IF entry.isDir THEN "folder-icon" ELSE "file-icon",
     href |-> PathJoin(relativePath, entry.name) \o (IF entry.isDir THEN <<Sep>> ELSE <<>>),
     text |-> entry.name]

\* the page serveDir renders for dirPath: Buffer.from(contents)
RenderListing(rootDir, dirPath, entries) ==
    LET relativePath == <<Sep>> \o Relative(rootDir, dirPath)
        sorted == SortEntries(entries)
    IN  ListingBuffer(relativePath,
                      [i \in 1..Len(sorted) |-> RenderEntry(relativePath, sorted[i])])

(***************************************************************************)
(* The response writers: the writeHead and end calls each makes.            *)
(***************************************************************************)
NoHeaders ==
    [names |-> {}, ContentType |-> "", ETag |-> 0, Location |-> <<>>,
     ContentLength |-> 0, Expires |-> 0]

NoBody == [kind |-> "none", text |-> "", tail |-> <<>>, buf |-> NoBuffer]
StringBody(text, tail) == [kind |-> "string", text |-> text, tail |-> tail, buf |-> NoBuffer]
BufferBody(buf) == [kind |-> "buffer", text |-> "", tail |-> <<>>, buf |-> buf]

WriteHead(status, headers) ==
    [op |-> "writeHead", status |-> status, headers |-> headers, body |-> NoBody]
End(body) == [op |-> "end", status |-> 0, headers |-> NoHeaders, body |-> body]

\* a variant: the request is blamed
notFoundAs400(extra) ==
    <<WriteHead(400, NoHeaders), End(StringBody("Not found - ", <<extra>>))>>

\* notFound(req, res, extra)
notFound(extra) ==
    <<WriteHead(404, NoHeaders), End(StringBody("Not found - ", <<extra>>))>>

\* a variant: the Location ends in one separator more
redirectAppending(location) ==
    <<WriteHead(302, [NoHeaders EXCEPT !.names = {"Location"},
                                       !.Location = location \o <<Sep>>]),
      End(StringBody("Location: ", location \o <<Sep>>))>>

\* redirect(req, res, location)
redirect(location) ==
    <<WriteHead(302, [NoHeaders EXCEPT !.names = {"Location"}, !.Location = location]),
      End(StringBody("Location: ", location))>>

\* the two forms of the program: the TypeScript source (src/src/index.ts) and the
\* compiled module (src/out/index.js); they differ in serveFile only
Builds == {"ts", "js"}

\* the extensions the two switches name
eHtml == <<".", "h", "t", "m", "l">>
eHtm == <<".", "h", "t", "m">>
eJs == <<".", "j", "s">>
eCss == <<".", "c", "s", "s">>
eJson == <<".", "j", "s", "o", "n">>
ePng == <<".", "p", "n", "g">>
eSvg == <<".", "s", "v", "g">>
eTtf == <<".", "t", "t", "f">>
eTxt == <<".", "t", "x", "t">>
eWasm == <<".", "w", "a", "s", "m">>
eMap == <<".", "m", "a", "p">>

\* the switch on extname of serveFile in src/src/index.ts
ContentTypeTs(extname) ==
    CASE extname = eHtml -> "text/html"
      [] extname = eHtm -> "text/html"
      [] extname = eJs -> "text/javascript"
      [] extname = eCss -> "text/css"
      [] extname = eTtf -> "font/ttf"
      [] extname = eSvg -> "image/svg+xml"
      [] extname = eWasm -> "application/wasm"
      [] extname = eMap -> ""
      [] OTHER -> ""

\* the switch on extname of serveFile in src/out/index.js
ContentTypeJs(extname) ==
    CASE extname = eCss -> "text/css; charset=utf-8"
      [] extname = eHtm -> "text/html; charset=utf-8"
      [] extname = eHtml -> "text/html; charset=utf-8"
      [] extname = eJs -> "text/javascript; charset=utf-8"
      [] extname = eJson -> "application/json; charset=utf-8"
      [] extname = ePng -> "image/png"
      [] extname = eSvg -> "image/svg+xml"
      [] extname = eTtf -> "font/ttf"
      [] extname = eTxt -> "text/plain; charset=utf-8"
      [] extname = eWasm -> "application/wasm"
      [] extname = eMap -> ""
      [] OTHER -> ""

\* the value serveFile gives headers['Content-Type'], "" when it sets none
ContentTypeOf(b, extname) ==
    IF b = "ts" THEN ContentTypeTs(extname) ELSE ContentTypeJs(extname)

\* a variant: the Expires header is there from the start
InitialHeadersWithExpires(b) == [NoHeaders EXCEPT !.names = {"Expires"}]

\* the headers object serveFile starts from
InitialHeaders(b) ==
    IF b = "ts" THEN [NoHeaders EXCEPT !.names = {"Content-Encoding"}] ELSE NoHeaders

\* a variant: any If-None-Match header counts as a match
IfNoneMatchAny(inm, etag) == inm.present

\* req.headers['if-none-match'] === etag
IfNoneMatchIs(inm, etag) == inm.present /\ inm.value = etag

\* serveFile(req, res, extname, content) of build b under the closure's useETag,
\* expires
serveFile(b, inm, useETag, expires, extname, content) ==
    LET h0 == InitialHeaders(b)
        h1 == IF ContentTypeOf(b, extname) # ""
              THEN [h0 EXCEPT !.names = @ \cup {"Content-Type"},
                              !.ContentType = ContentTypeOf(b, extname)]
              ELSE h0
        h2 == IF expires # 0
              THEN [h1 EXCEPT !.names = @ \cup {"Expires"}, !.Expires = expires]
              ELSE h1
        etag == Md5Hex(content)
        h3 == IF useETag
              THEN [h2 EXCEPT !.names = @ \cup {"ETag"}, !.ETag = etag]
              ELSE h2
    IN  IF useETag /\ IfNoneMatchIs(inm, etag)
        THEN <<WriteHead(304, h3), End(NoBody)>>
        ELSE <<WriteHead(200, [h3 EXCEPT !.names = @ \cup {"Content-Length"},
                                         !.ContentLength = ByteLength(content)]),
               End(BufferBody(content))>>

\* serveDir(req, res, dirPath, entries)
serveDir(b, inm, useETag, expires, rootDir, dirPath, entries) ==
    serveFile(b, inm, useETag, expires, eHtml,
              RenderListing(rootDir, dirPath, entries))

(***************************************************************************)
(* Inputs: the options of createServer and the requests.                    *)
(***************************************************************************)
Undefined == [defined |-> FALSE, bool |-> FALSE, num |-> 0]
BoolOption(b) == [defined |-> TRUE, bool |-> b, num |-> 0]
NumOption(n) == [defined |-> TRUE, bool |-> FALSE, num |-> n]

\* the default of options.expires: 5 * 1000
DefaultExpires == 5000

OptionsSet ==
    [rootDir : {sW, sWSlash, sMissing},
     etag : {Undefined, BoolOption(FALSE)},
     expires : {Undefined, NumOption(0)}]

Slots == 1..NSlots

SegAlphabet == {sEmpty, sDotDot, sA, sFTxt, sWx, sIndexHtml}

SegSeqs(n) == UNION {[1..k -> SegAlphabet] : k \in 1..n}

\* origin-form request targets of at most n segments
PathUrls(n) == {<<Sep>> \o JoinSegs(ss) : ss \in SegSeqs(n)}

Urls == {<<>>} \cup PathUrls(MaxSegs) \cup {u \o <<"?", "a">> : u \in PathUrls(1)}

\* the request targets of two requests in flight together
TwinUrls == PathUrls(MaxSegs - 1)

NoIfNoneMatch == [present |-> FALSE, value |-> 0]
IfNoneMatch(v) == [present |-> TRUE, value |-> v]
IfNoneMatchValues == {NoIfNoneMatch} \cup {IfNoneMatch(v) : v \in 0..(HashMod - 1)}

Requests ==
    [method : {"GET"}, url : Urls, inm : IfNoneMatchValues]
        \cup [method : {"POST"}, url : {<<>>, <<Sep>> \o sFTxt}, inm : {NoIfNoneMatch}]

NoRequest == [method |-> "", url |-> <<>>, inm |-> NoIfNoneMatch]

RECURSIVE IndexOfQueryOrHash(_, _)
\* the first i >= from with s[i] one of "?", "#", or Len(s) + 1
IndexOfQueryOrHash(s, from) ==
    IF from > Len(s) THEN from
    ELSE IF s[from] = "?" \/ s[from] = "#" THEN from
    ELSE IndexOfQueryOrHash(s, from + 1)

\* url.parse(u).pathname of an origin-form target: what precedes the query and
\* the fragment, as written (nothing is decoded); "" stands for null
UrlPathname(u) == SubSeq(u, 1, IndexOfQueryOrHash(u, 1) - 1)

(***************************************************************************)
(* State.                                                                   *)
(***************************************************************************)
VARIABLES
    build,      \* which form of the program runs
    options,    \* the argument of createServer
    server,     \* createServer's progress and the closure it builds
    fs,         \* the filesystem: node path -> node
    fsChanges,  \* how many times other processes have changed fs
    req,        \* per slot, the http.IncomingMessage
    h,          \* per slot, doHandle's position and locals
    res         \* per slot, the calls made on the http.ServerResponse

vars == <<build, options, server, fs, fsChanges, req, h, res>>

NewServer == [state |-> "new", rootDir |-> <<>>, useETag |-> FALSE, expires |-> 0]

NotServed == [ok |-> FALSE, extname |-> <<>>, content |-> NoBuffer]
Served(extname, content) == [ok |-> TRUE, extname |-> extname, content |-> content]

Handler(pc) ==
    [pc |-> pc, pathname |-> <<>>, requestedPath |-> <<>>, expectedRequestPath |-> <<>>,
     indexPath |-> <<>>, content |-> NullBuffer, stats |-> NullStats,
     indexContent |-> NullBuffer, dirEntries |-> NullDirents, served |-> NotServed,
     probes |-> <<>>,
     fsFirst |-> 0, fsLast |-> 0, threw |-> FALSE, escaped |-> FALSE]

Probe(op, path) == [op |-> op, path |-> path]

InitServer ==
    /\ build \in Builds
    /\ options \in OptionsSet
    /\ server = NewServer
    /\ fs = InitFs
    /\ fsChanges = 0
    /\ res = [r \in Slots |-> <<>>]

\* one request
Init ==
    /\ InitServer
    /\ \E q \in Requests : req = [r \in Slots |-> IF r = 1 THEN q ELSE NoRequest]
    /\ h = [r \in Slots |-> IF r = 1 THEN Handler("new") ELSE Handler("idle")]

\* the same GET request, without If-None-Match, handled twice at once
InitTwin ==
    /\ InitServer
    /\ \E q \in Requests :
        /\ q.method = "GET" /\ ~q.inm.present
        /\ q.url \in TwinUrls
        /\ req = [r \in Slots |-> IF r <= 2 THEN q ELSE NoRequest]
    /\ h = [r \in Slots |-> IF r <= 2 THEN Handler("new") ELSE Handler("idle")]

\* the request targets of two different requests in flight together
PairUrls == PathUrls(MaxSegs - 2)

\* two requests, alike or not, handled at once
InitPair ==
    /\ InitServer
    /\ \E q1, q2 \in Requests :
        /\ q1.url \in PairUrls /\ q2.url \in PairUrls
        /\ ~q1.inm.present /\ ~q2.inm.present
        /\ req = [r \in Slots |-> IF r = 1 THEN q1 ELSE IF r = 2 THEN q2 ELSE NoRequest]
    /\ h = [r \in Slots |-> IF r <= 2 THEN Handler("new") ELSE Handler("idle")]

\* request targets that name one resource in several ways: with "." and "a"
\* percent-encoded, and with a query or a fragment
EncodedUrls ==
    {<<Sep>> \o p \o t :
        p \in {sFTxt, <<"f", "%", "2", "E", "t", "x", "t">>, sA, <<"%", "6", "1">>,
               sA \o <<Sep>>, <<"%", "6", "1", Sep>>},
        t \in {<<>>, <<"?", "a">>, <<"#", "a">>}}

\* two GET requests in flight together, their targets from EncodedUrls
InitDecode ==
    /\ InitServer
    /\ \E u1, u2 \in EncodedUrls :
        req = [r \in Slots |->
                 IF r = 1 THEN [method |-> "GET", url |-> u1, inm |-> NoIfNoneMatch]
                 ELSE IF r = 2 THEN [method |-> "GET", url |-> u2, inm |-> NoIfNoneMatch]
                 ELSE NoRequest]
    /\ h = [r \in Slots |-> IF r <= 2 THEN Handler("new") ELSE Handler("idle")]

\* the extensions serveFile is called with: those its switches name, none, and
\* one that no switch names
Extnames ==
    {eHtml, eHtm, eJs, eCss, eJson, ePng, eSvg, eTtf, eTxt, eWasm, eMap,
     <<>>, <<".", "x">>}

\* one call of serveFile, for any extension and content
InitServeFile ==
    /\ InitServer
    /\ \E q \in Requests :
        /\ q.method = "GET" /\ q.url = <<Sep>>
        /\ req = [r \in Slots |-> IF r = 1 THEN q ELSE NoRequest]
    /\ \E extname \in Extnames, b \in FileBytes :
        h = [r \in Slots |->
                IF r = 1
                THEN [Handler("serveFile") EXCEPT !.served = Served(extname, FileBuffer(b))]
                ELSE Handler("idle")]

(***************************************************************************)
(* createServer.                                                            *)
(***************************************************************************)
CreateServer ==
    /\ server.state = "new"
    /\ LET rootDir == Normalize(options.rootDir)
           useETag == IF options.etag.defined THEN options.etag.bool ELSE TRUE
           expires == IF options.expires.defined THEN options.expires.num ELSE DefaultExpires
           rootDirExists == fsExists(fs, rootDir)
       IN  server' = [state |-> IF rootDirExists THEN "ready" ELSE "failed",
                      rootDir |-> rootDir, useETag |-> useETag, expires |-> expires]
    /\ UNCHANGED <<build, options, fs, fsChanges, req, h, res>>

(***************************************************************************)
(* Other processes change the filesystem.  Only a change that a request in  *)
(* flight can observe is a step: a change to a node that no pending probe   *)
(* and no later probe of a request reads leaves every response as it is, and *)
(* a change made before the first probe is issued is one made while it is    *)
(* pending.                                                                 *)
(***************************************************************************)
Probing == {"read", "stat", "readIndex", "readdir"}

\* the probes of a request for path read node p: the node of path, the nodes
\* above it, and its children (index.html, the entries of a listing)
Reads(path, p) ==
    LET n == StripTrailingSeps(path)
    IN  InSubtree(p, n) \/ Parent(p) = n

Observable(p) ==
    \E r \in Slots : h[r].pc \in Probing /\ Reads(h[r].requestedPath, p)

\* unlink, or rm -r
FsRemove ==
    /\ fsChanges < MaxFsChanges
    /\ \E p \in FsPaths \ {sRoot} :
        /\ fs[p].kind # "none"
        /\ Observable(p)
        /\ fs' = [q \in FsPaths |-> IF InSubtree(p, q) THEN NoNode ELSE fs[q]]
    /\ fsChanges' = fsChanges + 1
    /\ UNCHANGED <<build, options, server, req, h, res>>

\* a file is rewritten
FsWrite ==
    /\ fsChanges < MaxFsChanges
    /\ \E p \in FsPaths, b \in FileBytes :
        /\ fs[p].kind = "file"
        /\ fs[p].bytes # b
        /\ Observable(p)
        /\ fs' = [fs EXCEPT ![p] = FileNode(b)]
    /\ fsChanges' = fsChanges + 1
    /\ UNCHANGED <<build, options, server, req, h, res>>

(***************************************************************************)
(* handle and doHandle.  A step runs from one await to the next.  With      *)
(* canThrow, a call into the platform (url.parse, a probe, res.writeHead,   *)
(* res.end) may raise instead of returning.                                 *)
(***************************************************************************)
WriterFaults(canThrow) == IF canThrow THEN {"none", "writeHead", "end"} ELSE {"none"}
CallFaults(canThrow) == IF canThrow THEN {"none", "throw"} ELSE {"none"}

Made(call, threw) ==
    [op |-> call.op, status |-> call.status, headers |-> call.headers,
     body |-> call.body, threw |-> threw]

\* the calls a writer gets to make when the named call raises
Written(calls, fault) ==
    CASE fault = "none" -> <<Made(calls[1], FALSE), Made(calls[2], FALSE)>>
      [] fault = "writeHead" -> <<Made(calls[1], TRUE)>>
      [] fault = "end" -> <<Made(calls[1], FALSE), Made(calls[2], TRUE)>>

\* a variant: the response is never ended
RespondNoEnd(r, locals, calls, canThrow) ==
    /\ res' = [res EXCEPT ![r] = @ \o <<Made(calls[1], FALSE)>>]
    /\ h' = [h EXCEPT ![r] = [locals EXCEPT !.pc = "done"]]

\* a variant: one response object serves every request
RespondShared(r, locals, calls, canThrow) ==
    /\ res' = [res EXCEPT ![1] = @ \o Written(calls, "none")]
    /\ h' = [h EXCEPT ![r] = [locals EXCEPT !.pc = "done"]]

\* doHandle returns the writer's promise: fulfilled, or rejected when a call raised
Respond(r, locals, calls, canThrow) ==
    \E fault \in WriterFaults(canThrow) :
        /\ res' = [res EXCEPT ![r] = @ \o Written(calls, fault)]
        /\ h' = [h EXCEPT ![r] = [locals EXCEPT
                    !.pc = IF fault = "none" THEN "done" ELSE "rejected",
                    !.threw = fault # "none"]]

\* an exception inside doHandle rejects its promise
Reject(r) ==
    /\ h' = [h EXCEPT ![r].pc = "rejected", ![r].threw = TRUE]
    /\ res' = res

\* a variant: the probe is issued a second time
AwaitTwice(r, locals, pc, probe) ==
    /\ h' = [h EXCEPT ![r] = [locals EXCEPT !.pc = pc,
                                            !.probes = Append(Append(@, probe), probe)]]
    /\ res' = res

\* doHandle suspends on the promise of a probe
Await(r, locals, pc, probe) ==
    /\ h' = [h EXCEPT ![r] = [locals EXCEPT !.pc = pc, !.probes = Append(@, probe)]]
    /\ res' = res

\* a variant: the method is not looked at
BadRequestNoMethod(q) == q.url = <<>>

\* req.method !== 'GET' || !req.url
BadRequest(q) == q.method # "GET" \/ q.url = <<>>

\* a variant: the containment check compares one character too few
EscapesRootShort(rootDir, requestedPath) ==
    Substr0(requestedPath, Len(rootDir) - 1) # Substr0(rootDir, Len(rootDir) - 1)

\* requestedPath.substr(0, rootDir.length) !== rootDir
EscapesRoot(rootDir, requestedPath) == Substr0(requestedPath, Len(rootDir)) # rootDir

\* handle(req, res): doHandle up to its first await
Start(r, canThrow) ==
    /\ server.state = "ready"
    /\ h[r].pc = "new"
    /\ LET l0 == h[r]
       IN  IF BadRequest(req[r])
           THEN Respond(r, l0, notFound("1"), canThrow)
           ELSE \E parse \in CallFaults(canThrow) :
                IF parse = "throw" THEN Reject(r)
                ELSE LET pathname == UrlPathname(req[r].url)
                         requestedPath == Normalize(PathJoin(server.rootDir, pathname))
                         l1 == [l0 EXCEPT !.pathname = pathname]
                         l2 == [l1 EXCEPT !.requestedPath = requestedPath]
                     IN  IF pathname = <<>>
                         THEN Respond(r, l1, notFound("2"), canThrow)
                         ELSE IF EscapesRoot(server.rootDir, requestedPath)
                         THEN Respond(r, l2, notFound("3"), canThrow)
                         ELSE Await(r, l2, "read", Probe("readFile", requestedPath))
    /\ UNCHANGED <<build, options, server, fs, fsChanges, req>>

\* const content = await fsSafeRead(requestedPath), up to the next await
ReadDone(r, canThrow) ==
    /\ h[r].pc = "read"
    /\ \E probe \in CallFaults(canThrow) :
        IF probe = "throw" THEN Reject(r)
        ELSE LET content == fsSafeRead(fs, h[r].requestedPath)
                 l1 == [h[r] EXCEPT !.content = content, !.fsFirst = fsChanges,
                                    !.fsLast = fsChanges]
                 extname == Extname(h[r].requestedPath)
             IN  IF content.ok
                 THEN Respond(r, [l1 EXCEPT !.served = Served(extname, content.data)],
                              serveFile(build, req[r].inm, server.useETag, server.expires,
                                        extname, content.data),
                              canThrow)
                 ELSE Await(r, l1, "stat", Probe("stat", h[r].requestedPath))
    /\ UNCHANGED <<build, options, server, fs, fsChanges, req>>

\* a variant: the trailing "/" is not appended
ExpectedRequestPathNoSlash(rootDir, requestedPath) ==
    LET e == Relative(rootDir, requestedPath)
    IN  IF CharAt0(e) # Sep THEN <<Sep>> \o e ELSE e

\* expectedRequestPath of doHandle
ExpectedRequestPath(rootDir, requestedPath) ==
    LET e == Relative(rootDir, requestedPath) \o <<Sep>>
    IN  IF CharAt0(e) # Sep THEN <<Sep>> \o e ELSE e

\* a variant: the index file is looked up in the root directory
IndexPathOfRoot(requestedPath) == Normalize(PathJoin(sW, sIndexHtml))

\* indexPath of doHandle
IndexPath(requestedPath) == Normalize(PathJoin(requestedPath, sIndexHtml))

\* const stats = await fsSafeStat(requestedPath), up to the next await
StatDone(r, canThrow) ==
    /\ h[r].pc = "stat"
    /\ \E probe \in CallFaults(canThrow) :
        IF probe = "throw" THEN Reject(r)
        ELSE LET stats == fsSafeStat(fs, h[r].requestedPath)
                 expected == ExpectedRequestPath(server.rootDir, h[r].requestedPath)
                 indexPath == IndexPath(h[r].requestedPath)
                 l1 == [h[r] EXCEPT !.stats = stats, !.fsLast = fsChanges]
                 l2 == [l1 EXCEPT !.expectedRequestPath = expected]
             IN  IF ~stats.ok \/ ~stats.isDirectory
                 THEN Respond(r, l1, notFound("4"), canThrow)
                 ELSE IF h[r].pathname # expected
                 THEN Respond(r, l2, redirect(expected), canThrow)
                 ELSE Await(r, [l2 EXCEPT !.indexPath = indexPath], "readIndex",
                            Probe("readFile", indexPath))
    /\ UNCHANGED <<build, options, server, fs, fsChanges, req>>

\* const indexContent = await fsSafeRead(indexPath), up to the next await
IndexDone(r, canThrow) ==
    /\ h[r].pc = "readIndex"
    /\ \E probe \in CallFaults(canThrow) :
        IF probe = "throw" THEN Reject(r)
        ELSE LET indexContent == fsSafeRead(fs, h[r].indexPath)
                 l1 == [h[r] EXCEPT !.indexContent = indexContent, !.fsLast = fsChanges]
                 extname == Extname(h[r].indexPath)
             IN  IF indexContent.ok
                 THEN Respond(r, [l1 EXCEPT !.served = Served(extname, indexContent.data)],
                              serveFile(build, req[r].inm, server.useETag, server.expires,
                                        extname, indexContent.data),
                              canThrow)
                 ELSE Await(r, l1, "readdir", Probe("readdir", h[r].requestedPath))
    /\ UNCHANGED <<build, options, server, fs, fsChanges, req>>

\* const dirEntries = await fsSafeReadDir(requestedPath), to the end of doHandle
ReadDirDone(r, canThrow) ==
    /\ h[r].pc = "readdir"
    /\ \E probe \in CallFaults(canThrow) :
        IF probe = "throw" THEN Reject(r)
        ELSE \E dirEntries \in fsSafeReadDir(fs, h[r].requestedPath) :
             LET l1 == [h[r] EXCEPT !.dirEntries = dirEntries, !.fsLast = fsChanges]
                 listing == RenderListing(server.rootDir, h[r].requestedPath,
                                          dirEntries.entries)
             IN  IF dirEntries.ok
                 THEN Respond(r, [l1 EXCEPT !.served = Served(eHtml, listing)],
                              serveDir(build, req[r].inm, server.useETag, server.expires,
                                       server.rootDir, h[r].requestedPath,
                                       dirEntries.entries),
                              canThrow)
                 ELSE Respond(r, l1, notFound("5"), canThrow)
    /\ UNCHANGED <<build, options, server, fs, fsChanges, req>>

\* serveFile(req, res, extname, content) called on its own
ServeFileCall(r) ==
    /\ server.state = "ready"
    /\ h[r].pc = "serveFile"
    /\ Respond(r, h[r],
               serveFile(build, req[r].inm, server.useETag, server.expires,
                         h[r].served.extname, h[r].served.content),
               FALSE)
    /\ UNCHANGED <<build, options, server, fs, fsChanges, req>>

\* the rejection handler of handle: writes the 500; what it raises is not caught
Catch(r, canThrow) ==
    /\ h[r].pc = "rejected"
    /\ \E fault \in WriterFaults(canThrow) :
        /\ res' = [res EXCEPT ![r] = @ \o
                     Written(<<WriteHead(500, NoHeaders),
                               End(StringBody("Internal Server Error", <<>>))>>, fault)]
        /\ h' = [h EXCEPT ![r].pc = "done", ![r].escaped = fault # "none"]
    /\ UNCHANGED <<build, options, server, fs, fsChanges, req>>

\* doHandle run from its first line to its last on filesystem f, no other step
\* between its probes: the calls it makes on the response
doHandle(b, srv, f, q) ==
    LET pathname == UrlPathname(q.url)
        requestedPath == Normalize(PathJoin(srv.rootDir, pathname))
        content == fsSafeRead(f, requestedPath)
        stats == fsSafeStat(f, requestedPath)
        indexPath == IndexPath(requestedPath)
        indexContent == fsSafeRead(f, indexPath)
        dirEntries == CHOOSE d \in fsSafeReadDir(f, requestedPath) : TRUE
    IN  IF BadRequest(q) THEN notFound("1")
        ELSE IF pathname = <<>> THEN notFound("2")
        ELSE IF EscapesRoot(srv.rootDir, requestedPath) THEN notFound("3")
        ELSE IF content.ok
        THEN serveFile(b, q.inm, srv.useETag, srv.expires, Extname(requestedPath),
                       content.data)
        ELSE IF ~stats.ok \/ ~stats.isDirectory THEN notFound("4")
        ELSE IF pathname # ExpectedRequestPath(srv.rootDir, requestedPath)
        THEN redirect(ExpectedRequestPath(srv.rootDir, requestedPath))
        ELSE IF indexContent.ok
        THEN serveFile(b, q.inm, srv.useETag, srv.expires, Extname(indexPath),
                       indexContent.data)
        ELSE IF dirEntries.ok
        THEN serveDir(b, q.inm, srv.useETag, srv.expires, srv.rootDir, requestedPath,
                      dirEntries.entries)
        ELSE notFound("5")

(***************************************************************************)
(* Specifications.                                                          *)
(***************************************************************************)
Environment == CreateServer \/ FsRemove \/ FsWrite

\* the platform's calls return
Next ==
    \/ Environment
    \/ \E r \in Slots : Start(r, FALSE)
    \/ \E r \in Slots : ReadDone(r, FALSE)
    \/ \E r \in Slots : StatDone(r, FALSE)
    \/ \E r \in Slots : IndexDone(r, FALSE)
    \/ \E r \in Slots : ReadDirDone(r, FALSE)

Spec == Init /\ [][Next]_vars

\* the platform's calls may raise
NextThrow ==
    \/ Environment
    \/ \E r \in Slots : Start(r, TRUE)
    \/ \E r \in Slots : ReadDone(r, TRUE)
    \/ \E r \in Slots : StatDone(r, TRUE)
    \/ \E r \in Slots : IndexDone(r, TRUE)
    \/ \E r \in Slots : ReadDirDone(r, TRUE)
    \/ \E r \in Slots : Catch(r, TRUE)

SpecThrow == Init /\ [][NextThrow]_vars

\* two identical requests in flight together
SpecTwin == InitTwin /\ [][Next]_vars

\* the next step of the request of r
Continue(r) ==
    \/ Start(r, FALSE) \/ ReadDone(r, FALSE) \/ StatDone(r, FALSE)
    \/ IndexDone(r, FALSE) \/ ReadDirDone(r, FALSE)

\* the request of r waits for the platform: to enter handle, or for a probe
Pending(r) == server.state = "ready" /\ h[r].pc \in {"new"} \cup Probing

\* what the request of r waits for completes: weak fairness of Continue(r),
\* WF_vars(Continue(r)), with Pending(r) written for ENABLED <<Continue(r)>>_vars
FsCallsComplete(r) == []<>(~Pending(r)) \/ []<><<Continue(r)>>_vars

\* one request, whose calls complete
SpecLive == Init /\ [][Next]_vars /\ FsCallsComplete(1)

\* two requests in flight together: the calls of the second complete, those of
\* the first may never
SpecPair == InitPair /\ [][Next]_vars /\ FsCallsComplete(2)

\* two requests whose targets may be percent-encoded
SpecDecode == InitDecode /\ [][Next]_vars

\* serveFile alone
NextServeFile == CreateServer \/ \E r \in Slots : ServeFileCall(r)

SpecServeFile == InitServeFile /\ [][NextServeFile]_vars

(***************************************************************************)
(* What a request and its response are, for the properties below.           *)
(***************************************************************************)
Active == {r \in Slots : h[r].pc # "idle"}
Done(r) == h[r].pc = "done"
IsGet(r) == req[r].method = "GET" /\ req[r].url # <<>>

\* normalize(join(rootDir, pathname)) of request r
Candidate(r) == Normalize(PathJoin(server.rootDir, UrlPathname(req[r].url)))

\* "/" + root-relative path + "/"
CanonicalForm(r) ==
    LET rel == Relative(server.rootDir, Candidate(r))
    IN  IF rel = <<>> THEN <<Sep>> ELSE <<Sep>> \o rel \o <<Sep>>

\* the root directory's subtree, bounded by a path separator
InRootSubtree(path) ==
    InSubtree(StripTrailingSeps(server.rootDir), StripTrailingSeps(path))

\* the calls of each kind made on the response of r
CallsOf(r, op) == {i \in 1..Len(res[r]) : res[r][i].op = op}

\* the response of r, when its writer ran undisturbed
StatusOf(r) == res[r][1].status
HeadersOf(r) == res[r][1].headers
BodyOf(r) == res[r][2].body
Complete(r) ==
    /\ Len(res[r]) = 2
    /\ res[r][1].op = "writeHead" /\ ~res[r][1].threw
    /\ res[r][2].op = "end" /\ ~res[r][2].threw

\* no process has changed the filesystem
FsUnchanged == fsChanges = 0

\* the client that was sent a 302 requests its Location
Follow ==
    /\ h[1].pc = "done" /\ h[2].pc = "idle"
    /\ Complete(1) /\ StatusOf(1) = 302
    /\ req' = [req EXCEPT ![2] = [method |-> "GET", url |-> HeadersOf(1).Location,
                                  inm |-> NoIfNoneMatch]]
    /\ h' = [h EXCEPT ![2] = Handler("new")]
    /\ UNCHANGED <<build, options, server, fs, fsChanges, res>>

NextFollow == Next \/ Follow

\* one request, and the request for the Location of its redirect
SpecFollow == Init /\ [][NextFollow]_vars

(***************************************************************************)
(* C1.  A GET request whose normalized join of rootDir and pathname does    *)
(* not have rootDir as a string prefix is answered 404.                      *)
(***************************************************************************)
C1_TraversalIs404 ==
    \A r \in Active :
        (/\ Done(r)
         /\ IsGet(r)
         /\ UrlPathname(req[r].url) # <<>>
         /\ ~IsPrefix(server.rootDir, Candidate(r)))
        => Complete(r) /\ StatusOf(r) = 404

C1_Witness ==
    \E r \in Active :
        /\ Done(r) /\ IsGet(r)
        /\ UrlPathname(req[r].url) # <<>>
        /\ ~IsPrefix(server.rootDir, Candidate(r))
        /\ StatusOf(r) = 404

(***************************************************************************)
(* C2.  Every path the handler probes (readFile, stat, readDirectory) is    *)
(* rootDir or lies in its subtree, bounded by a path separator.  The code    *)
(* violates it: the prefix test is textual.                                  *)
(***************************************************************************)
C2_ProbesStayInRoot ==
    \A r \in Active :
        \A i \in 1..Len(h[r].probes) : InRootSubtree(h[r].probes[i].path)

(***************************************************************************)
(* C5.  A request that is not a GET, or has no URL, is answered 404, never  *)
(* 500, and causes no probe.                                                 *)
(***************************************************************************)
C5_BadRequestIs404 ==
    \A r \in Active :
        (Done(r) /\ ~IsGet(r))
        => /\ Complete(r)
           /\ StatusOf(r) = 404
           /\ h[r].probes = <<>>

C5_Witness ==
    \E r \in Active :
        /\ Done(r) /\ req[r].method = "POST" /\ req[r].url # <<>>
        /\ StatusOf(r) = 404 /\ h[r].probes = <<>>

(***************************************************************************)
(* C6.  A GET request that resolves to an existing directory inside the     *)
(* root and whose pathname is not "/" + root-relative path + "/" is answered *)
(* 302 with that Location, and nothing of the directory is served; a         *)
(* directory is answered 200 only at its canonical pathname.                 *)
(***************************************************************************)
\* below the root directory, the root itself not included
InsideRoot(path) ==
    /\ InRootSubtree(path)
    /\ StripTrailingSeps(path) # StripTrailingSeps(server.rootDir)

\* the path is a directory for as long as the request is handled, or when the
\* handler looks
IsDirectoryFor(r) ==
    \/ FsUnchanged /\ NodeAt(fs, Candidate(r)).kind = "dir"
    \/ h[r].stats.ok /\ h[r].stats.isDirectory

\* C6: a directory below the root is redirected to its canonical pathname, and
\* answered 200 or 304 only there
C6_DirectoryRedirect ==
    \A r \in Active :
        (/\ Done(r) /\ IsGet(r)
         /\ UrlPathname(req[r].url) # <<>>
         /\ IsDirectoryFor(r)
         /\ InsideRoot(Candidate(r)))
        => LET pathname == UrlPathname(req[r].url)
               canonical == CanonicalForm(r)
           IN  /\ Complete(r)
               /\ pathname # canonical
                    => /\ StatusOf(r) = 302
                       /\ HeadersOf(r).names = {"Location"}
                       /\ HeadersOf(r).Location = canonical
                       /\ ~h[r].served.ok
                       /\ \A i \in 1..Len(h[r].probes) :
                              h[r].probes[i].path = h[r].requestedPath
                              /\ h[r].probes[i].op # "readdir"
               /\ StatusOf(r) \in {200, 304} => pathname = canonical

C6_Witness ==
    \E r \in Active :
        /\ Done(r) /\ IsGet(r)
        /\ InsideRoot(Candidate(r))
        /\ FsUnchanged /\ NodeAt(fs, Candidate(r)).kind = "dir"
        /\ UrlPathname(req[r].url) # CanonicalForm(r)
        /\ StatusOf(r) = 302
        /\ HeadersOf(r).Location = Under(sRoot, sA) \o <<Sep>>

(***************************************************************************)
(* C7.  With ETag enabled, a request whose If-None-Match equals the entity  *)
(* tag of the content served (a file, an index.html, a listing) is answered  *)
(* 304 with no body; otherwise the content is answered 200 with its body and *)
(* its ETag header.  With ETag disabled no request is answered 304.          *)
(***************************************************************************)
C7_ConditionalGet ==
    \A r \in Active :
        Done(r) =>
           /\ h[r].served.ok =>
                LET content == h[r].served.content
                    matches == req[r].inm.present /\ req[r].inm.value = Md5Hex(content)
                IN  /\ Complete(r)
                    /\ (server.useETag /\ matches)
                         => StatusOf(r) = 304 /\ BodyOf(r) = NoBody
                    /\ (server.useETag /\ ~matches)
                         => /\ StatusOf(r) = 200
                            /\ BodyOf(r) = BufferBody(content)
                            /\ "ETag" \in HeadersOf(r).names
                            /\ HeadersOf(r).ETag = Md5Hex(content)
                    /\ ~server.useETag
                         => /\ StatusOf(r) = 200
                            /\ BodyOf(r) = BufferBody(content)
                            /\ "ETag" \notin HeadersOf(r).names
           /\ ~server.useETag => \A i \in 1..Len(res[r]) : res[r][i].status # 304

C7_Witness ==
    \E r \in Active :
        /\ Done(r) /\ server.useETag
        /\ h[r].served.ok /\ h[r].served.content.kind = "listing"
        /\ req[r].inm.present /\ req[r].inm.value = Md5Hex(h[r].served.content)
        /\ StatusOf(r) = 304 /\ BodyOf(r) = NoBody

(***************************************************************************)
(* C9.  A GET request for the canonical URL of a directory that holds a     *)
(* readable index.html never causes readDirectory; it is answered 200 with   *)
(* that file's bytes and the .html content type, or, with ETag enabled and   *)
(* an If-None-Match equal to the file's tag, 304 with no body.               *)
(***************************************************************************)
\* the canonical URL of a directory: "/" for the root directory
DirectoryUrl(r) ==
    IF Relative(server.rootDir, Candidate(r)) = <<>> THEN <<Sep>> ELSE CanonicalForm(r)

IndexNode(r) == Under(StripTrailingSeps(Candidate(r)), sIndexHtml)

\* a canonical request for a served directory that holds a readable index.html
IndexRequested(r) ==
    /\ Done(r) /\ IsGet(r)
    /\ FsUnchanged
    /\ UrlPathname(req[r].url) # <<>>
    /\ LET c == Candidate(r)
       IN  /\ InRootSubtree(c) /\ IsPrefix(server.rootDir, c)
           /\ NodeAt(fs, c).kind = "dir"
           /\ NodeAt(fs, Under(StripTrailingSeps(c), sIndexHtml)).kind = "file"
    /\ UrlPathname(req[r].url) = DirectoryUrl(r)

NoReadDirectory(r) == \A i \in 1..Len(h[r].probes) : h[r].probes[i].op # "readdir"

IndexIs200(r) ==
    /\ Complete(r)
    /\ StatusOf(r) = 200
    /\ BodyOf(r) = BufferBody(FileBuffer(fs[IndexNode(r)].bytes))
    /\ "Content-Type" \in HeadersOf(r).names
    /\ HeadersOf(r).ContentType \in {"text/html", "text/html; charset=utf-8"}
    /\ NoReadDirectory(r)

\* C9, as written: the index file of a directory is always answered 200
C9_IndexAlways200 == \A r \in Active : IndexRequested(r) => IndexIs200(r)

\* C9, amended: the index file is answered 200 with its bytes as text/html, or 304
\* to a matching If-None-Match, and the directory is never read
C9_IndexServed ==
    \A r \in Active :
        IndexRequested(r) =>
            IF /\ server.useETag
               /\ req[r].inm.present
               /\ req[r].inm.value = Md5Hex(FileBuffer(fs[IndexNode(r)].bytes))
            THEN /\ Complete(r)
                 /\ StatusOf(r) = 304
                 /\ BodyOf(r) = NoBody
                 /\ NoReadDirectory(r)
            ELSE IndexIs200(r)

C9_Witness ==
    \E r \in Active :
        /\ IndexRequested(r)
        /\ req[r].url = Under(sRoot, sA) \o <<Sep>>
        /\ IndexIs200(r)

(***************************************************************************)
(* C10.  In a listing, whatever the order readdir returned the entries in,  *)
(* every entry is rendered exactly once, every directory comes before every  *)
(* file, entries of one kind are in the (case-aware) alphabetical order of    *)
(* their names, and exactly the links of directories end with "/".           *)
(***************************************************************************)
IsListing(r) ==
    /\ Complete(r)
    /\ StatusOf(r) = 200
    /\ BodyOf(r).kind = "buffer"
    /\ BodyOf(r).buf.kind = "listing"

C10_ListingOrder ==
    \A r \in Active :
        (Done(r) /\ IsListing(r)) =>
            LET items == BodyOf(r).buf.items
                entries == h[r].dirEntries.entries
                isDir(i) == \E k \in 1..Len(entries) :
                                entries[k].name = items[i].text /\ entries[k].isDir
            IN  /\ Len(items) = Len(entries)
                /\ \A k \in 1..Len(entries) :
                       Cardinality({i \in 1..Len(items) : items[i].text = entries[k].name}) = 1
                /\ \A i, j \in 1..Len(items) :
                       i < j =>
                          /\ isDir(j) => isDir(i)
                          /\ (isDir(i) <=> isDir(j))
                                => LocaleCompare(items[i].text, items[j].text) < 0
                /\ \A i \in 1..Len(items) :
                       /\ isDir(i) <=> Last(items[i].href) = Sep
                       /\ isDir(i) <=> items[i].icon = "folder-icon"

C10_Witness ==
    \E r \in Active :
        /\ Done(r) /\ IsListing(r)
        /\ [i \in 1..Len(h[r].dirEntries.entries) |-> h[r].dirEntries.entries[i].name]
              = <<sFTxt, sUpperB, sA>>
        /\ [i \in 1..Len(BodyOf(r).buf.items) |-> BodyOf(r).buf.items[i].text]
              = <<sA, sUpperB, sFTxt>>

(***************************************************************************)
(* C3.  Whatever fails, writeHead is called at most once and end at most    *)
(* once on a response, and writeHead comes before end.  The code violates    *)
(* it: the rejection handler writes a second response.                       *)
(***************************************************************************)
C3_OneResponse ==
    \A r \in Active :
        /\ Cardinality(CallsOf(r, "writeHead")) <= 1
        /\ Cardinality(CallsOf(r, "end")) <= 1
        /\ \A i \in CallsOf(r, "end") : \E j \in CallsOf(r, "writeHead") : j < i

(***************************************************************************)
(* C4.  Any failure while a request is handled ends in a 500 response with  *)
(* the body "Internal Server Error", and no error leaves handle.  The code   *)
(* violates it: what the rejection handler raises is not caught, and a       *)
(* response whose headers were written stays what it was.                    *)
(***************************************************************************)
\* the calls on the response of r that returned
Returned(r, op) == {i \in CallsOf(r, op) : ~res[r][i].threw}

\* C4: a request that met a failure ends with a 500 response and its fixed body,
\* and nothing is raised out of the rejection handler
C4_FailureIs500 ==
    \A r \in Active :
        (Done(r) /\ h[r].threw)
        => /\ ~h[r].escaped
           /\ \A i \in Returned(r, "writeHead") : res[r][i].status = 500
           /\ \E i \in Returned(r, "end") :
                  res[r][i].body = StringBody("Internal Server Error", <<>>)

(***************************************************************************)
(* C8.  Two identical GET requests without If-None-Match, handled in any    *)
(* interleaving, all of whose probes saw the same filesystem, are answered   *)
(* with the same status, the same body and the same ETag.                     *)
(***************************************************************************)
\* every probe of r1 and of r2 completed on one version of the filesystem
SameFilesystem(r1, r2) ==
    \A v \in {h[r1].fsFirst, h[r1].fsLast, h[r2].fsFirst, h[r2].fsLast} :
        v = h[r1].fsFirst

\* C8: two identical GET requests that saw one filesystem get the same status,
\* body and ETag
C8_Idempotent ==
    \A r1, r2 \in Active :
        (/\ Done(r1) /\ Done(r2)
         /\ req[r1] = req[r2]
         /\ IsGet(r1) /\ ~req[r1].inm.present
         /\ SameFilesystem(r1, r2))
        => /\ Complete(r1) /\ Complete(r2)
           /\ StatusOf(r1) = StatusOf(r2)
           /\ BodyOf(r1) = BodyOf(r2)
           /\ ("ETag" \in HeadersOf(r1).names) <=> ("ETag" \in HeadersOf(r2).names)
           /\ HeadersOf(r1).ETag = HeadersOf(r2).ETag

C8_Witness ==
    \E r1, r2 \in Active :
        /\ r1 # r2
        /\ Done(r1) /\ Done(r2)
        /\ req[r1] = req[r2]
        /\ IsGet(r1) /\ ~req[r1].inm.present
        /\ SameFilesystem(r1, r2)
        /\ IsListing(r1) /\ IsListing(r2)
        /\ Len(h[r1].dirEntries.entries) > 1
        /\ h[r1].dirEntries # h[r2].dirEntries
        /\ BodyOf(r1) = BodyOf(r2)
        /\ "ETag" \in HeadersOf(r1).names

(***************************************************************************)
(* C11.  serveFile answers a .txt file 200 with Content-Type "text/plain;   *)
(* charset=utf-8" and the file's bytes; every extension of the table (html, *)
(* htm, js, css, json, png, svg, ttf, txt, wasm) gets its media type, and    *)
(* .map or any other extension gets no Content-Type.  The code violates it:  *)
(* the switch of src/src/index.ts names neither .txt, .json nor .png.        *)
(***************************************************************************)
\* the media type the table lists for an extension, "" for none
ListedType(extname) ==
    CASE extname \in {eHtml, eHtm} -> "text/html"
      [] extname = eJs -> "text/javascript"
      [] extname = eCss -> "text/css"
      [] extname = eJson -> "application/json"
      [] extname = ePng -> "image/png"
      [] extname = eSvg -> "image/svg+xml"
      [] extname = eTtf -> "font/ttf"
      [] extname = eTxt -> "text/plain"
      [] extname = eWasm -> "application/wasm"
      [] OTHER -> ""

\* the Content-Type of the response of r, "" when it has none
ContentTypeSent(r) ==
    IF "Content-Type" \in HeadersOf(r).names THEN HeadersOf(r).ContentType ELSE ""

\* C11: a 200 response to a file carries the file's bytes and the Content-Type
\* the table lists for its extension, with or without a charset parameter
C11_MimeTable ==
    \A r \in Active :
        (Done(r) /\ h[r].served.ok /\ Complete(r) /\ StatusOf(r) = 200)
        => LET extname == h[r].served.extname
               listed == ListedType(extname)
           IN  /\ BodyOf(r) = BufferBody(h[r].served.content)
               /\ extname = eTxt => ContentTypeSent(r) = "text/plain; charset=utf-8"
               /\ listed = "" => ContentTypeSent(r) = ""
               /\ listed # ""
                    => ContentTypeSent(r) \in {listed, listed \o "; charset=utf-8"}

(***************************************************************************)
(* C12.  createServer fails when rootDir does not exist: no handler is      *)
(* returned and no request is ever handled.  When rootDir exists it returns  *)
(* a handler.                                                                *)
(***************************************************************************)
\* handle has been called for the request of r
Handled(r) == h[r].pc \notin {"idle", "new"} \/ res[r] # <<>>

C12_CreateServerFails ==
    /\ server.state = "failed"
         => /\ NodeAt(fs, Normalize(options.rootDir)).kind = "none"
            /\ \A r \in Slots : ~Handled(r)
    /\ (server.state = "ready" /\ FsUnchanged)
         => NodeAt(fs, Normalize(options.rootDir)).kind # "none"
    /\ server.state = "new" => \A r \in Slots : ~Handled(r)

C12_Witness ==
    /\ server.state = "failed"
    /\ options.rootDir = sMissing
    /\ \E r \in Slots : h[r].pc = "new" /\ IsGet(r)

(***************************************************************************)
(* C13.  Every status code written on a response is one of 200, 302, 304,   *)
(* 404, 500, also when calls into the platform raise.                        *)
(***************************************************************************)
C13_StatusCodes ==
    \A r \in Slots :
        \A i \in CallsOf(r, "writeHead") : res[r][i].status \in {200, 302, 304, 404, 500}

C13_Witness ==
    \E r \in Active :
        /\ Done(r) /\ h[r].threw
        /\ Len(res[r]) = 2
        /\ res[r][1].op = "writeHead" /\ res[r][1].status = 500 /\ ~res[r][1].threw

(***************************************************************************)
(* C14.  The probes of a request are issued in the order readFile(path),    *)
(* stat(path), readFile(path/index.html), readDirectory(path), each at most  *)
(* once, and none once a call has been made on the response.                 *)
(***************************************************************************)
\* the four probes of a request for its path, in the order of the algorithm
ProbePlan(r) ==
    LET c == Candidate(r)
    IN  <<Probe("readFile", c), Probe("stat", c),
          Probe("readFile", Normalize(PathJoin(c, sIndexHtml))), Probe("readdir", c)>>

\* the probes issued are the first ones of the plan
ProbesInOrder(probes, plan) ==
    \/ probes = <<>>
    \/ /\ Len(probes) <= Len(plan)
       /\ probes = SubSeq(plan, 1, Len(probes))

\* C14: in every step the probes follow the plan, one more at a time, and only
\* while nothing has been written
C14_ProbeOrder ==
    [][\A r \in Slots :
          /\ h'[r].probes # h[r].probes => ProbesInOrder(h'[r].probes, ProbePlan(r))
          /\ Len(h'[r].probes) <= Len(h[r].probes) + 1
          /\ res[r] # <<>> => h'[r].probes = h[r].probes
          /\ h'[r].probes # h[r].probes => res'[r] = <<>>]_vars

C14_Witness ==
    \E r \in Active :
        /\ Done(r) /\ IsListing(r)
        /\ Len(h[r].probes) = 4
        /\ [i \in 1..4 |-> h[r].probes[i].op] = <<"readFile", "stat", "readFile", "readdir">>
        /\ h[r].probes[3].path = Under(pW, sIndexHtml)
        /\ h[r].probes[4].path = h[r].probes[1].path

(***************************************************************************)
(* C15.  A probe that finds nothing leads to 404, never to 500: when        *)
(* readFile found no file and stat no directory, and when the directory was  *)
(* there for stat but neither index.html nor the directory could be read.    *)
(***************************************************************************)
\* the last probe of r was op, and the filesystem has not changed since it completed
LastProbeWas(r, op) ==
    /\ h[r].probes # <<>>
    /\ Last(h[r].probes).op = op
    /\ h[r].fsLast = fsChanges

C15_NegativeProbesAre404 ==
    \A r \in Active :
        Done(r) =>
            /\ (LastProbeWas(r, "stat") /\ NodeAt(fs, Candidate(r)).kind # "dir")
                 => Complete(r) /\ StatusOf(r) = 404
            /\ (LastProbeWas(r, "readdir") /\ NodeAt(fs, Candidate(r)).kind # "dir")
                 => Complete(r) /\ StatusOf(r) = 404
            /\ (Len(h[r].probes) = 2 /\ ~h[r].content.ok /\ ~(h[r].stats.ok /\ h[r].stats.isDirectory))
                 => Complete(r) /\ StatusOf(r) = 404
            /\ (Len(h[r].probes) = 4 /\ ~h[r].indexContent.ok /\ ~h[r].dirEntries.ok)
                 => Complete(r) /\ StatusOf(r) = 404

C15_Witness ==
    \E r \in Active :
        /\ Done(r)
        /\ LastProbeWas(r, "readdir")
        /\ h[r].stats.ok /\ h[r].stats.isDirectory
        /\ NodeAt(fs, Candidate(r)).kind = "none"
        /\ StatusOf(r) = 404

(***************************************************************************)
(* C16.  The headers of a response are among Content-Type, Content-Length,  *)
(* Expires, ETag and Location; Location is sent only with 302, and           *)
(* Content-Length only with 200, where it is the byte length of the body.    *)
(* The code violates it: serveFile of src/src/index.ts starts its headers    *)
(* with Content-Encoding.                                                    *)
(***************************************************************************)
C16_HeaderNames ==
    \A r \in Slots :
        \A i \in CallsOf(r, "writeHead") :
            LET head == res[r][i]
            IN  /\ head.headers.names \subseteq
                       {"Content-Type", "Content-Length", "Expires", "ETag", "Location"}
                /\ "Location" \in head.headers.names => head.status = 302
                /\ "Content-Length" \in head.headers.names
                     => /\ head.status = 200
                        /\ i < Len(res[r])
                        /\ res[r][i + 1].op = "end"
                        /\ res[r][i + 1].body.kind = "buffer"
                        /\ head.headers.ContentLength = ByteLength(res[r][i + 1].body.buf)

(***************************************************************************)
(* C17.  A 200 or 304 response has an Expires header exactly when the       *)
(* configured expires is positive, and an ETag header exactly when etag is   *)
(* enabled; the configuration does not change once createServer has          *)
(* returned.                                                                 *)
(***************************************************************************)
\* the configuration createServer is given, with its defaults
ConfiguredExpires == IF options.expires.defined THEN options.expires.num ELSE 5000
ConfiguredETag == IF options.etag.defined THEN options.etag.bool ELSE TRUE

CachingHeadersFollowOptions ==
    \A r \in Slots :
        \A i \in CallsOf(r, "writeHead") :
            res[r][i].status \in {200, 304}
            => /\ "Expires" \in res[r][i].headers.names <=> ConfiguredExpires > 0
               /\ "ETag" \in res[r][i].headers.names <=> ConfiguredETag

ConfigurationIsFixed ==
    server.state = "ready" => server' = server /\ options' = options

\* C17: the caching headers follow the options, and the closure keeps them
C17_CachingHeaders == []CachingHeadersFollowOptions /\ [][ConfigurationIsFixed]_vars

C17_Witness ==
    \E r \in Active :
        /\ Done(r) /\ Complete(r)
        /\ StatusOf(r) = 304
        /\ options.expires.defined /\ options.expires.num = 0
        /\ HeadersOf(r).names = {"ETag", "Content-Type"} \cup InitialHeaders(build).names

(***************************************************************************)
(* C18.  Requests in flight together do not interfere: on an unchanged      *)
(* filesystem each gets the response it gets when handled alone, whatever    *)
(* the interleaving of the probes; a step of one request leaves the others   *)
(* as they are; and a request whose calls complete gets its response though  *)
(* the calls of the other never complete.                                    *)
(***************************************************************************)
\* the response of a finished request is that of doHandle run alone
AloneResponse ==
    \A r \in Active :
        (Done(r) /\ FsUnchanged)
            => res[r] = Written(doHandle(build, server, fs, req[r]), "none")

\* a step of the request of r changes no other request and no other response
OthersUntouched ==
    \A r \in Slots :
        (h'[r] # h[r] \/ res'[r] # res[r])
            => \A s \in Slots \ {r} : h'[s] = h[s] /\ res'[s] = res[s]

\* C18: requests in flight together do not interfere, and the second request,
\* whose calls complete, is answered whether or not the first ever continues
C18_NoInterference ==
    /\ []AloneResponse
    /\ [][OthersUntouched]_vars
    /\ (server.state = "ready" /\ h[2].pc = "new") ~> (Done(2) /\ Complete(2))

C18_Witness ==
    \E r1, r2 \in Active :
        /\ FsUnchanged
        /\ req[r1] # req[r2]
        /\ h[r1].pc = "read"
        /\ Done(r2) /\ IsListing(r2)
        /\ res[r2] = Written(doHandle(build, server, fs, req[r2]), "none")

(***************************************************************************)
(* C19.  A request passed to handle gets a complete response, writeHead then *)
(* end, provided the calls it waits for complete; no branch of doHandle ends  *)
(* without a response.                                                       *)
(***************************************************************************)
\* a finished request has its response
EndsWithResponse == \A r \in Active : Done(r) => Complete(r)

\* C19: every request handled is answered in full
C19_EventuallyAnswered ==
    /\ []EndsWithResponse
    /\ \A r \in Slots :
          (server.state = "ready" /\ h[r].pc = "new") ~> (Done(r) /\ Complete(r))

C19_Witness ==
    \E r \in Active :
        /\ Done(r) /\ Complete(r)
        /\ Len(h[r].probes) = 4
        /\ StatusOf(r) = 404

(***************************************************************************)
(* C20.  The GET request for the Location of a 302, on the filesystem as it  *)
(* was, is not answered with another 302: it gets the directory's index.html, *)
(* its listing, or a 404.                                                    *)
(***************************************************************************)
\* the request of slot 2 is the one for the Location sent to slot 1
Followed == h[2].pc # "idle" /\ StatusOf(1) = 302 /\ req[2].url = HeadersOf(1).Location

\* C20: following a redirect ends at the directory, not at another redirect
C20_RedirectsConverge ==
    (Followed /\ Done(2) /\ FsUnchanged) =>
        /\ Complete(2)
        /\ StatusOf(2) # 302
        /\ StatusOf(2) = 404 \/ IsListing(2) \/ IndexIs200(2)

C20_Witness ==
    /\ Followed /\ Done(2) /\ FsUnchanged
    /\ IsListing(2)
    /\ req[1].inm.present
    /\ req[2].url # req[1].url \o <<Sep>>

(***************************************************************************)
(* C21.  The path looked up is the percent-decoded path component of the     *)
(* request target, query and fragment discarded: a percent-encoded path and   *)
(* the decoded one are answered alike, and so are two targets that differ     *)
(* only in query or fragment.                                                *)
(***************************************************************************)
\* the character that "%" and two hexadecimal digits stand for, "" when the
\* digits are none of the escapes of EncodedUrls
Unescaped(hi, lo) ==
    IF hi = "2" /\ lo = "E" THEN "."
    ELSE IF hi = "6" /\ lo = "1" THEN "a"
    ELSE ""

RECURSIVE PercentDecode(_)
\* every "%XX" of s replaced by the character it stands for
PercentDecode(s) ==
    IF Len(s) = 0 THEN <<>>
    ELSE IF s[1] = "%" /\ Len(s) >= 3 /\ Unescaped(s[2], s[3]) # ""
         THEN <<Unescaped(s[2], s[3])>> \o PercentDecode(SubSeq(s, 4, Len(s)))
         ELSE <<s[1]>> \o PercentDecode(Tail(s))

\* the path component of the target, decoded
DecodedPathname(u) == PercentDecode(UrlPathname(u))

\* the first probe reads the decoded path under rootDir
LookupIsDecoded ==
    \A r \in Active :
        h[r].probes # <<>>
            => h[r].probes[1].path
                 = Normalize(PathJoin(server.rootDir, DecodedPathname(req[r].url)))

\* two targets with one decoded path component are answered alike
SameResourceSameResponse ==
    \A r1, r2 \in Active :
        (/\ Done(r1) /\ Done(r2) /\ FsUnchanged
         /\ DecodedPathname(req[r1].url) = DecodedPathname(req[r2].url))
            => res[r1] = res[r2]

\* two targets that differ in query or fragment only are answered alike
QueryAndFragmentDiscarded ==
    \A r1, r2 \in Active :
        (/\ Done(r1) /\ Done(r2) /\ FsUnchanged
         /\ UrlPathname(req[r1].url) = UrlPathname(req[r2].url))
            => res[r1] = res[r2]

\* C21: the lookup uses the percent-decoded path component, and targets that
\* name one resource are answered alike
C21_DecodedPathname ==
    LookupIsDecoded /\ SameResourceSameResponse /\ QueryAndFragmentDiscarded

====
